---- MODULE Spec2Model ----
(***************************************************************************)
(* A model of clir (src/clir.c, src/example.c): the line buffer and its    *)
(* edit commands, the history store and its file, word completion, the     *)
(* terminal mode, the fallback reads and the redraw of the line.           *)
(*                                                                         *)
(* Text is modelled byte by byte.  The edited buffer is the C array        *)
(* buf[0..buflen-1] of the caller plus the byte that follows it in memory  *)
(* (index buflen), because clirEditInsert stores a terminator there when   *)
(* len reaches cs.buflen.  History lines and completion candidates are     *)
(* sequences of bytes without their terminator.                            *)
(***************************************************************************)
EXTENDS Integers, Sequences, FiniteSets, TLC

VARIABLES
    pc,                 \* "idle": outside clirEdit; "edit": inside its loop
    buf,                \* cs.buf: [0..buflen -> byte]
    buflen,             \* cs.buflen
    len,                \* cs.len
    pos,                \* cs.pos
    word_pos,           \* cs.word_pos
    history_index,      \* cs.history_index
    plen,               \* cs.plen
    cols,               \* cs.cols
    mlmode,             \* static int mlmode
    completionCallback, \* static completionCallback: "NULL" or "completion"
    history,            \* history[0..history_len-1], oldest first
    history_len,        \* static int history_len
    history_max_len,    \* static int history_max_len
    valid,              \* completeWord's valid[] after the last request
    cbarg,              \* the text the last request handed to the callback
    listed,             \* the candidates the last request printed
    hist0,              \* the history when the current session was entered
    rawmode,            \* static int rawmode
    termios,            \* the settings of the terminal itself
    orig_termios,       \* static struct termios orig_termios
    atexit_registered,  \* static int atexit_registered
    restore,            \* what the last disableRawMode did
    env,                \* the process's surroundings: isatty, TERM, failing calls
    stdin,              \* the bytes of standard input not yet read
    returned,           \* what the last call of clir returned
    file,               \* the history file
    saved,              \* the store the history file was written from
    oldpos,             \* cs.oldpos
    maxrows,            \* cs.maxrows
    crow,               \* the screen row the cursor is on
    painted,            \* the screen rows that show text
    werr,               \* a write of a redraw failed in this session
    drawn,              \* what the redraw of the last step computed
    op                  \* the last operation: its name, argument and result

vars == <<pc, buf, buflen, len, pos, word_pos, history_index, plen, cols,
          mlmode, completionCallback, history, history_len, history_max_len,
          valid, cbarg, listed, hist0, rawmode, termios, orig_termios,
          atexit_registered, restore, env, stdin, returned, file, saved,
          oldpos, maxrows, crow, painted, werr, drawn, op>>

csVars   == <<buf, len, pos>>
sessVars == <<buflen, plen, cols, word_pos, history_index>>
histVars == <<history, history_len, history_max_len>>
confVars == <<mlmode, completionCallback>>
reqVars  == <<valid, cbarg, listed>>
modeVars == <<rawmode, termios, orig_termios, atexit_registered>>
fileVars == <<file, saved>>
scrVars  == <<oldpos, maxrows, crow, painted, werr, drawn>>

----------------------------------------------------------------------------
(* Bounds of the model *)

\* size of the line buffer: when every command is tried with an empty store,
\* when the store holds a line to navigate to, when the store is exercised,
\* and when words are completed
EditBufLen == 3
NavBufLen == 2
HistBufLen == 2
CompBufLen == 7
\* the history capacity the driver starts with, and the largest it sets
MaxHistLen == 2
MaxSetLen == 3

\* multi-row mode: the size of the line buffer, the longest prompt and the
\* width of the terminal
MLBufLen == 5
MaxMLPromptLen == 3
MLColumns == 2
\* how many rows the cursor is followed away from the first row of the image
MaxDrift == 3

\* windowing: the size of the line buffer, the longest prompt and the
\* widest terminal
WinBufLen == 3
MaxPromptLen == 4
MaxColumns == 3

\* keys: the size of the line buffer and the most keys of an input stream
KeyBufLen == 2
MaxKeys == 2

\* the longest input stream of a fallback read
MaxInputLen == 3

\* LINENOISE_MAX_LINE: the size of the line buffers of clir and of
\* clirHistoryLoad
LINENOISE_MAX_LINE == 4096

\* bytes the user types as text
EditText == {0, 32, 104, 105}
HistText == {104}
CompText == {32, 101, 104, 111}
\* lines the driver hands to clirHistoryAdd
Lines == {<<>>, <<104>>, <<32>>}
\* bytes on standard input when it is read by fgets
InputBytes == {97, 13, 10}
Inputs == UNION {[1..n -> InputBytes] : n \in 0..MaxInputLen}
\* a line that fills a buffer of LINENOISE_MAX_LINE bytes
LongLine == [i \in 1..(LINENOISE_MAX_LINE - 1) |-> 120]
\* lines the driver stores before it saves the history
FileLines == {<<>>, <<111>>, <<116>>, LongLine}
\* what memory the program never wrote may hold
Fill == {0, 32}
\* what follows a candidate's terminator on the heap, up to the next zero
Junk == {<<>>, <<104>>}
\* what the cells of seq and seq2 hold before read fills them
Uninit == {0, 68}
\* the keys of an input stream: the bytes a terminal sends for each, and
\* the command it stands for
Keys ==
    {[bytes |-> <<27, 91, 65>>,         cmd |-> "HistoryPrev"],
     [bytes |-> <<27, 91, 66>>,         cmd |-> "HistoryNext"],
     [bytes |-> <<27, 91, 67>>,         cmd |-> "MoveRight"],
     [bytes |-> <<27, 91, 68>>,         cmd |-> "MoveLeft"],
     [bytes |-> <<27, 79, 72>>,         cmd |-> "MoveHome"],
     [bytes |-> <<27, 79, 70>>,         cmd |-> "MoveEnd"],
     [bytes |-> <<27, 91, 51, 126>>,    cmd |-> "DeleteForward"],
     [bytes |-> <<27, 91, 49, 59, 53, 67>>, cmd |-> "WordForward"],
     [bytes |-> <<27, 91, 49, 59, 53, 68>>, cmd |-> "WordBackward"],
     [bytes |-> <<104>>,                cmd |-> "Insert"]}
\* the input streams of at most n keys
RECURSIVE KeyStreams(_)
KeyStreams(n) ==
    IF n = 0 THEN {<<>>}
    ELSE LET S == KeyStreams(n - 1)
         IN S \cup {k.bytes \o t : k \in Keys, t \in S}
\* prompt lengths and terminal widths of a session
PromptLens == {1}
Columns == {3}

----------------------------------------------------------------------------
(* C strings and memory *)

Min(S) == CHOOSE x \in S : \A y \in S : x <= y

\* the <ctype.h> isspace of the C locale
isspace(c) == c \in {32, 9, 10, 11, 12, 13}

\* strlen(b): index of the first terminator
strlen(b) ==
    Min({i \in DOMAIN b : b[i] = 0} \cup {Cardinality(DOMAIN b)})

\* strdup(b): the bytes before the first terminator
strdup(b) == [i \in 1..strlen(b) |-> b[i - 1]]

\* memmove(b+dst, b+src, n)
memmove(b, dst, src, n) ==
    [i \in DOMAIN b |-> IF dst <= i /\ i < dst + n THEN b[i - dst + src] ELSE b[i]]

\* strncpy(b, s, n); b[n-1] = '\0'
strncpy(b, s, n) ==
    [i \in DOMAIN b |->
        IF i >= n THEN b[i]
        ELSE IF i = n - 1 THEN 0
        ELSE IF i < Len(s) THEN s[i + 1] ELSE 0]

\* strcmp(a, b) == 0
streq(a, b) == a = b

\* fgets(buf, n, stream) on the unread bytes in: at most n-1 bytes, ending
\* after the first newline; NULL (null = TRUE) when nothing is left to read
fgets(in, n) ==
    LET most == IF Len(in) < n - 1 THEN Len(in) ELSE n - 1
        k    == Min({i \in 1..most : in[i] = 10} \cup {most})
    IN [null |-> Len(in) = 0,
        got  |-> SubSeq(in, 1, k),
        rest |-> SubSeq(in, k + 1, Len(in))]

\* read(fd, buf, n) on the unread bytes in, into an array of n cells that
\* hold u: the bytes that are there, at most n; the cells past them keep u
read(in, n, u) ==
    LET k == IF Len(in) < n THEN Len(in) ELSE n
    IN [buf  |-> [i \in 0..(n - 1) |-> IF i < k THEN in[i + 1] ELSE u],
        rest |-> SubSeq(in, k + 1, Len(in))]

\* strchr(s, c): the index of the first c in s, 0 when there is none
strchr(s, c) == Min({i \in 1..Len(s) : s[i] = c} \cup {Len(s) + 1}) % (Len(s) + 1)

----------------------------------------------------------------------------
(* Low level terminal handling, on the record                               *)
(* m = [rawmode, termios, orig_termios, atexit_registered]                  *)

\* the terminal settings are "cooked" (canonical, echoing) or "raw";
\* orig_termios, a zero-initialised static, starts as "zero"
MakeRaw(t) == "raw"

\* isUnsupportedTerm for the value of TERM
isUnsupportedTerm(term) == term \in {"dumb", "cons25"}

\* enableRawMode(fd): tty is isatty(STDIN_FILENO), out the call that fails,
\* "tcgetattr" or "tcsetattr", or "ok"
enableRawMode(m, tty, out) ==
    IF ~tty THEN [m |-> m, ret |-> -1]
    ELSE LET m1 == [m EXCEPT !.atexit_registered = 1]
             m2 == [m1 EXCEPT !.orig_termios = m.termios]
         IN IF out = "tcgetattr" THEN [m |-> m1, ret |-> -1]
            ELSE IF out = "tcsetattr" THEN [m |-> m2, ret |-> -1]
            ELSE [m   |-> [m2 EXCEPT !.termios = MakeRaw(m2.orig_termios),
                                     !.rawmode = 1],
                  ret |-> 0]

\* disableRawMode(fd): fail says that tcsetattr fails; did tells whether
\* tcsetattr was called and how it ended
disableRawMode(m, fail) ==
    IF m.rawmode = 1
    THEN IF fail THEN [m |-> m, did |-> "failed"]
         ELSE [m   |-> [m EXCEPT !.termios = m.orig_termios, !.rawmode = 0],
               did |-> "ok"]
    ELSE [m |-> m, did |-> "skipped"]

----------------------------------------------------------------------------
(* History store *)

\* clirHistoryAdd(line) on the store <<h, hl>> of capacity max:
\* the store and the return value
\* (variant: the store is never shifted when it is full)
HistoryAdd_NoEvict(h, hl, max, line) ==
    IF max = 0 THEN [h |-> h, hl |-> hl, ret |-> 0]
    ELSE IF hl > 0 /\ streq(h[hl], line) THEN [h |-> h, hl |-> hl, ret |-> 0]
    ELSE [h |-> Append(h, line), hl |-> hl + 1, ret |-> 1]

HistoryAdd(h, hl, max, line) ==
    IF max = 0 THEN [h |-> h, hl |-> hl, ret |-> 0]
    ELSE LET \* at capacity the oldest slot is freed and the rest shifted down
             h1  == IF hl = max THEN Tail(h) ELSE h
             hl1 == IF hl = max THEN hl - 1 ELSE hl
         IN  \* only now is the line compared with the newest entry
             IF hl1 > 0 /\ streq(h1[hl1], line)
             THEN [h |-> h1, hl |-> hl1, ret |-> 0]
             ELSE [h |-> Append(h1, line), hl |-> hl1 + 1, ret |-> 1]

\* (variant: the oldest entries are the ones retained)
HistorySetMaxLen_KeepOldest(h, hl, max, n) ==
    IF n < 1 THEN [h |-> h, hl |-> hl, max |-> max, ret |-> 0]
    ELSE LET tocopy == IF n < hl THEN n ELSE hl
         IN [h |-> SubSeq(h, 1, tocopy), hl |-> tocopy, max |-> n, ret |-> 1]

\* clirHistorySetMaxLen(n): the store, its capacity and the return value
HistorySetMaxLen(h, hl, max, n) ==
    IF n < 1 THEN [h |-> h, hl |-> hl, max |-> max, ret |-> 0]
    ELSE LET tocopy == IF n < hl THEN n ELSE hl
         IN [h      |-> SubSeq(h, hl - tocopy + 1, hl),
             hl     |-> IF hl > n THEN n ELSE hl,
             max    |-> n,
             ret    |-> 1]

\* the bytes clirHistorySave writes: every entry followed by a newline
RECURSIVE HistorySave(_, _, _)
HistorySave(h, hl, j) ==
    IF j > hl THEN <<>> ELSE h[j] \o <<10>> \o HistorySave(h, hl, j + 1)

\* the loop of clirHistoryLoad over the unread bytes of the file: each
\* fgets is cut at its first CR, or else at its first LF, and added
RECURSIVE HistoryLoad(_, _, _, _)
HistoryLoad(h, hl, max, in) ==
    LET r    == fgets(in, LINENOISE_MAX_LINE)
        cr   == strchr(r.got, 13)
        p    == IF cr = 0 THEN strchr(r.got, 10) ELSE cr
        text == IF p = 0 THEN r.got ELSE SubSeq(r.got, 1, p - 1)
        a    == HistoryAdd(h, hl, max, text)
    IN IF r.null THEN [h |-> h, hl |-> hl]
       ELSE HistoryLoad(a.h, a.hl, max, r.rest)

----------------------------------------------------------------------------
(* Fallback reads *)

\* the loop of clir for an incapable terminal: every trailing LF and CR goes
RECURSIVE StripCRLF(_)
StripCRLF(s) ==
    IF Len(s) > 0 /\ s[Len(s)] \in {10, 13}
    THEN StripCRLF(SubSeq(s, 1, Len(s) - 1))
    ELSE s

\* clirRaw when standard input is not a terminal: one trailing LF goes
StripLF(s) ==
    IF Len(s) > 0 /\ s[Len(s)] = 10 THEN SubSeq(s, 1, Len(s) - 1) ELSE s

----------------------------------------------------------------------------
(* Line buffer: the functions of the "Line editing" section, on the record *)
(* cs = [buf, len, pos]; bl is cs.buflen.                                   *)

\* clirEditInsert: the buffer part (the terminal write is in the action)
EditInsert(cs, bl, c) ==
    IF cs.len < bl
    THEN IF cs.len = cs.pos
         THEN [buf |-> [cs.buf EXCEPT ![cs.pos] = c, ![cs.len + 1] = 0],
               len |-> cs.len + 1, pos |-> cs.pos + 1]
         ELSE [buf |-> [memmove(cs.buf, cs.pos + 1, cs.pos, cs.len - cs.pos)
                           EXCEPT ![cs.pos] = c, ![cs.len + 1] = 0],
               len |-> cs.len + 1, pos |-> cs.pos + 1]
    ELSE cs

\* clirEditMoveLeft
EditMoveLeft(cs) ==
    IF cs.pos > 0 THEN [cs EXCEPT !.pos = cs.pos - 1] ELSE cs

\* (variant: the cursor advances without looking at len)
EditMoveRight_NoGuard(cs) == [cs EXCEPT !.pos = cs.pos + 1]

\* clirEditMoveRight
EditMoveRight(cs) ==
    IF cs.pos # cs.len THEN [cs EXCEPT !.pos = cs.pos + 1] ELSE cs

\* clirEditDelete
EditDelete(cs) ==
    IF cs.len > 0 /\ cs.pos < cs.len
    THEN [buf |-> [memmove(cs.buf, cs.pos, cs.pos + 1, cs.len - cs.pos - 1)
                      EXCEPT ![cs.len - 1] = 0],
          len |-> cs.len - 1, pos |-> cs.pos]
    ELSE cs

\* (variant: the bytes after the cursor are not moved down)
EditBackspace_NoMove(cs) ==
    IF cs.pos > 0 /\ cs.len > 0
    THEN [buf |-> [cs.buf EXCEPT ![cs.len - 1] = 0],
          len |-> cs.len - 1, pos |-> cs.pos - 1]
    ELSE cs

\* clirEditBackspace
EditBackspace(cs) ==
    IF cs.pos > 0 /\ cs.len > 0
    THEN [buf |-> [memmove(cs.buf, cs.pos - 1, cs.pos, cs.len - cs.pos)
                      EXCEPT ![cs.len - 1] = 0],
          len |-> cs.len - 1, pos |-> cs.pos - 1]
    ELSE cs

\* the two loops of clirEditDeletePrevWord
RECURSIVE SkipBackSpaces(_, _)
SkipBackSpaces(b, p) ==
    IF p > 0 /\ b[p - 1] = 32 THEN SkipBackSpaces(b, p - 1) ELSE p

RECURSIVE SkipBackWord(_, _)
SkipBackWord(b, p) ==
    IF p > 0 /\ b[p - 1] # 32 THEN SkipBackWord(b, p - 1) ELSE p

\* clirEditDeletePrevWord
EditDeletePrevWord(cs) ==
    LET old_pos == cs.pos
        p       == SkipBackWord(cs.buf, SkipBackSpaces(cs.buf, cs.pos))
        diff    == old_pos - p
    IN [buf |-> memmove(cs.buf, p, old_pos, cs.len - old_pos + 1),
        len |-> cs.len - diff, pos |-> p]

\* ctrl-t
EditSwap(cs) ==
    IF cs.pos > 0 /\ cs.pos < cs.len
    THEN [buf |-> [cs.buf EXCEPT ![cs.pos - 1] = cs.buf[cs.pos],
                                 ![cs.pos]     = cs.buf[cs.pos - 1]],
          len |-> cs.len,
          pos |-> IF cs.pos # cs.len - 1 THEN cs.pos + 1 ELSE cs.pos]
    ELSE cs

\* ctrl-u
EditClearLine(cs) == [buf |-> [cs.buf EXCEPT ![0] = 0], len |-> 0, pos |-> 0]

\* ctrl-k
EditDeleteToEnd(cs) ==
    [buf |-> [cs.buf EXCEPT ![cs.pos] = 0], len |-> cs.pos, pos |-> cs.pos]

\* the two loops of the ctrl-right jump
RECURSIVE FwdWord(_, _, _)
FwdWord(b, l, p) ==
    IF ~isspace(b[p]) /\ p < l THEN FwdWord(b, l, p + 1) ELSE p

RECURSIVE FwdSpaces(_, _, _)
FwdSpaces(b, l, p) ==
    IF isspace(b[p]) /\ p <= l THEN FwdSpaces(b, l, p + 1) ELSE p

\* ESC [ 1 ; 5 C
EditWordForward(cs) ==
    [cs EXCEPT !.pos = FwdSpaces(cs.buf, cs.len, FwdWord(cs.buf, cs.len, cs.pos))]

\* the byte at index i for the ctrl-left jump; under is what memory holds
\* just below the buffer
At(b, i, under) == IF i < 0 THEN under ELSE b[i]

RECURSIVE BackSpaces(_, _)
BackSpaces(b, p) ==
    IF isspace(b[p]) /\ p > 0 THEN BackSpaces(b, p - 1) ELSE p

RECURSIVE BackWord(_, _, _)
BackWord(b, p, under) ==
    IF ~isspace(At(b, p - 1, under)) /\ p > 0 THEN BackWord(b, p - 1, under) ELSE p

\* ESC [ 1 ; 5 D
EditWordBackward(cs, under) ==
    LET p0 == IF cs.pos > 0 THEN cs.pos - 1 ELSE cs.pos
    IN [cs EXCEPT !.pos = BackWord(cs.buf, BackSpaces(cs.buf, p0), under)]

\* the indices of buf that the ctrl-right jump reads: each loop reads
\* buf[pos] before it compares pos with len
WordForwardReads(cs) == cs.pos..EditWordForward(cs).pos

\* the indices of buf that the ctrl-left jump reads: the first loop reads
\* buf[pos], the second reads buf[pos-1] before it compares pos with 0
WordBackwardReads(cs, under) ==
    LET p0 == IF cs.pos > 0 THEN cs.pos - 1 ELSE cs.pos
        q  == BackSpaces(cs.buf, p0)
        r  == BackWord(cs.buf, q, under)
    IN (q..p0) \cup ((r - 1)..(q - 1))

----------------------------------------------------------------------------
(* History navigation *)

\* (variant: the index is not brought back below the size of the store)
EditHistoryNext_NoClamp(cs, bl, h, hl, idx, dir) ==
    IF hl > 1
    THEN LET h1   == [h EXCEPT ![hl - idx] = strdup(cs.buf)]
             idx1 == idx + (IF dir = 1 THEN 1 ELSE -1)
         IN IF idx1 < 0
            THEN [cs |-> cs, h |-> h1, idx |-> 0, moved |-> FALSE]
            ELSE IF idx1 >= hl
            THEN [cs |-> cs, h |-> h1, idx |-> idx1, moved |-> FALSE]
            ELSE LET b1 == strncpy(cs.buf, h1[hl - idx1], bl)
                 IN [cs  |-> [buf |-> b1, len |-> strlen(b1), pos |-> strlen(b1)],
                     h   |-> h1,
                     idx |-> idx1,
                     moved |-> TRUE]
    ELSE [cs |-> cs, h |-> h, idx |-> idx, moved |-> FALSE]

\* clirEditHistoryNext(cs, dir): dir is 1 for LINENOISE_HISTORY_PREV and 0
\* for LINENOISE_HISTORY_NEXT.  The result holds the buffer, the store and
\* the navigation index.
EditHistoryNext(cs, bl, h, hl, idx, dir) ==
    IF hl > 1
    THEN LET h1   == [h EXCEPT ![hl - idx] = strdup(cs.buf)]
             idx1 == idx + (IF dir = 1 THEN 1 ELSE -1)
         IN IF idx1 < 0
            THEN [cs |-> cs, h |-> h1, idx |-> 0, moved |-> FALSE]
            ELSE IF idx1 >= hl
            THEN [cs |-> cs, h |-> h1, idx |-> hl - 1, moved |-> FALSE]
            ELSE LET b1 == strncpy(cs.buf, h1[hl - idx1], bl)
                 IN [cs  |-> [buf |-> b1, len |-> strlen(b1), pos |-> strlen(b1)],
                     h   |-> h1,
                     idx |-> idx1,
                     moved |-> TRUE]
    ELSE [cs |-> cs, h |-> h, idx |-> idx, moved |-> FALSE]

----------------------------------------------------------------------------
(* Completion *)

\* the producer of example.c
completion(b) ==
    IF b[0] = 104
    THEN << <<104, 101, 108, 108, 111>>,            \* hello
            <<104, 105>>,                           \* hi
            <<104, 101, 121>>,                      \* hey
            <<104, 111, 119, 122, 105, 116>> >>     \* howzit
    ELSE <<>>

\* cc.cvec[k][i]: the candidate's byte, its terminator, or, past the
\* terminator, whatever the heap holds there (junk, ended by a zero byte)
CandAt(cand, i, junk) ==
    IF i < Len(cand) THEN cand[i + 1]
    ELSE IF i = Len(cand) THEN 0
    ELSE IF i - Len(cand) <= Len(junk) THEN junk[i - Len(cand)]
    ELSE 0

\* the inner loop of completeWord: the flag left in valid[comp_i]
RECURSIVE ValidLoop(_, _, _, _, _, _)
ValidLoop(cand, b, wp, p, char_i, flag) ==
    IF CandAt(cand, char_i, <<>>) # 0 /\ wp + char_i < p
    THEN ValidLoop(cand, b, wp, p, char_i + 1,
                   IF cand[char_i + 1] # b[wp + char_i] THEN 0 ELSE flag)
    ELSE flag

\* valid[] after the outer loop
ValidFlags(cc, b, wp, p) ==
    [k \in 1..Len(cc) |-> ValidLoop(cc[k], b, wp, p, 0, 1)]

\* the insertion loop of the valid_c == 1 branch
RECURSIVE InsertRest(_, _, _, _, _)
InsertRest(cs, bl, cand, valid_p, junk) ==
    IF CandAt(cand, valid_p, junk) # 0
    THEN InsertRest(EditInsert(cs, bl, CandAt(cand, valid_p, junk)),
                    bl, cand, valid_p + 1, junk)
    ELSE cs

\* (variant: every candidate is printed, valid or not)
Listing_All(cc, flags, comp_i) == cc

\* the printing loop of the valid_c > 1 branch: the candidates from comp_i
\* on whose flag is set, in the order of cc
RECURSIVE Listing(_, _, _)
Listing(cc, flags, comp_i) ==
    IF comp_i > Len(cc) THEN <<>>
    ELSE (IF flags[comp_i] = 1 THEN <<cc[comp_i]>> ELSE <<>>)
            \o Listing(cc, flags, comp_i + 1)

\* completeWord(cs): the buffer, valid[], the text handed to the callback,
\* the candidates printed and the return value
completeWord(cs, bl, wp, junk) ==
    LET arg     == strdup(cs.buf)
        cc      == completion(cs.buf)
        flags   == ValidFlags(cc, cs.buf, wp, cs.pos)
        valid_c == Cardinality({k \in 1..Len(cc) : flags[k] = 1})
        valid_i == CHOOSE k \in 1..Len(cc) : flags[k] = 1
        same    == [cs |-> cs, valid |-> flags, arg |-> <<arg>>,
                    listed |-> <<>>, ret |-> 0]
    IN IF Len(cc) = 0 THEN same
       ELSE IF valid_c = 1
       THEN [same EXCEPT
               !.cs = EditInsert(InsertRest(cs, bl, cc[valid_i], cs.pos, junk),
                                 bl, 32)]
       ELSE IF valid_c > 1
       THEN [same EXCEPT !.listed = Listing(cc, flags, 1), !.ret = 1]
       ELSE same

----------------------------------------------------------------------------
(* The redraw: refreshLine, refreshSingleLine, refreshMultiLine *)

\* Screen rows are followed in multi-row mode, where the code moves the
\* cursor between rows; they are numbered from the row on which the image of
\* the line starts.  A write that fails writes nothing.

\* size_t arithmetic: the sums below stay far under 2^64, so a value that
\* wrapped below zero is held as the negative integer congruent to it, and
\* compares as the huge value it stands for
AtLeast(x, c) == x < 0 \/ x >= c
Above(x, c) == x < 0 \/ x > c

\* the first loop of refreshSingleLine: drop bytes on the left until the
\* cursor is inside the row
RECURSIVE Slide(_, _, _)
Slide(pl, c, w) ==
    IF AtLeast(pl + w.pos, c)
    THEN Slide(pl, c, [off |-> w.off + 1, len |-> w.len - 1, pos |-> w.pos - 1])
    ELSE w

\* the second loop: drop bytes on the right until the text fits the row
RECURSIVE Cut(_, _, _)
Cut(pl, c, w) ==
    IF Above(pl + w.len, c) THEN Cut(pl, c, [w EXCEPT !.len = w.len - 1]) ELSE w

\* no redraw
NoDraw == [mode |-> "none"]

\* refreshSingleLine on a line of l bytes with the cursor at p: the window
\* it computes; the row it rewrites is the row it is on
refreshSingleLine(s, l, p) ==
    LET w == Cut(plen, cols, Slide(plen, cols, [off |-> 0, len |-> l, pos |-> p]))
    IN [s EXCEPT !.drawn = [mode |-> "single", off |-> w.off, len |-> w.len,
                            pos |-> w.pos]]

\* "Update maxrows if needed": maxrows grows to the rows of the line
UpdateMaxRows(m, rows) == IF rows > m THEN rows ELSE m

\* refreshMultiLine on a line of l bytes with the cursor at p, when the
\* f-th write fails (0: none does).  The writes, in order: cursor down to
\* the last row, clear a row and go up for each row but the first, clear
\* the first row, the prompt, the buffer, a newline and a carriage return
\* when the cursor is at the end of a full row, cursor up to its row, set
\* the column.
refreshMultiLine(s, l, p, f) ==
    LET rows     == (plen + l + cols - 1) \div cols
        rpos     == (plen + s.oldpos + cols) \div cols
        old_rows == s.maxrows
        max1     == UpdateMaxRows(old_rows, rows)
        down     == IF old_rows - rpos > 0 THEN old_rows - rpos ELSE 0
        wDown    == IF down > 0 THEN 1 ELSE 0
        nClr     == IF old_rows > 1 THEN old_rows - 1 ELSE 0
        iTop     == wDown + nClr + 1
        iPrompt  == iTop + 1
        iBuf     == iTop + 2
        nl       == p > 0 /\ p = l /\ (p + plen) % cols = 0
        nNl      == IF nl THEN 2 ELSE 0
        rows2    == IF nl THEN rows + 1 ELSE rows
        rpos2    == (plen + p + cols) \div cols
        up       == IF rows2 - rpos2 > 0 THEN rows2 - rpos2 ELSE 0
        iUp      == iBuf + nNl + 1
        total    == iBuf + nNl + (IF up > 0 THEN 1 ELSE 0) + 1
        \* the writes that succeed
        ok       == IF f = 0 \/ f > total \/ s.werr THEN total ELSE f - 1
        c1       == s.crow + (IF ok >= 1 THEN down ELSE 0)
        k        == IF ok - wDown < 0 THEN 0
                    ELSE IF ok - wDown > nClr THEN nClr ELSE ok - wDown
        top      == c1 - k
        cleared  == ((top + 1)..c1) \cup (IF ok >= iTop THEN {top} ELSE {})
        T        == IF ok >= iBuf THEN plen + l
                    ELSE IF ok >= iPrompt THEN plen ELSE 0
        text     == IF T > 0 THEN top..(top + (T - 1) \div cols) ELSE {}
        c2       == IF T > 0 THEN top + (T - 1) \div cols ELSE top
        c3       == c2 + (IF nl /\ ok >= iBuf + 1 THEN 1 ELSE 0)
        c4       == c3 - (IF up > 0 /\ ok >= iUp THEN up ELSE 0)
    IN [oldpos  |-> IF ok = total THEN p ELSE s.oldpos,
        maxrows |-> IF nl /\ ok >= iBuf + 2 THEN UpdateMaxRows(max1, rows2) ELSE max1,
        crow    |-> c4,
        painted |-> (s.painted \ cleared) \cup text,
        werr    |-> s.werr \/ ok < total,
        drawn   |-> [mode |-> "multi", top |-> top, land |-> top,
                     failed |-> ok < total]]

refreshLine(s, l, p, f) ==
    IF mlmode THEN refreshMultiLine(s, l, p, f) ELSE refreshSingleLine(s, l, p)

\* the image starts anew on the row the last redraw painted from: rows are
\* counted from it, and the rows above it are out of the image; land keeps
\* the row the redraw went to, counted as when it began
Reframe(s) ==
    IF s.drawn.mode = "multi"
    THEN LET d == s.drawn.top - 1
         IN [s EXCEPT !.crow = s.crow - d,
                      !.painted = {r - d : r \in {q \in s.painted : q > d}},
                      !.drawn = [s.drawn EXCEPT !.top = 1]]
    ELSE s

\* after clirClearScreen the cursor is on the first row of the screen, which
\* a move up does not leave
AtScreenTop(s) ==
    IF s.drawn.mode = "multi" /\ s.drawn.land < 1
    THEN [s EXCEPT !.drawn.land = 1]
    ELSE s

\* the display when a step begins
scr == [oldpos |-> oldpos, maxrows |-> maxrows, crow |-> crow,
        painted |-> painted, werr |-> werr, drawn |-> NoDraw]

SetScr(s) ==
    /\ s.crow \in (1 - MaxDrift)..(1 + MaxDrift)
    /\ oldpos' = s.oldpos /\ maxrows' = s.maxrows /\ crow' = s.crow
    /\ painted' = s.painted /\ werr' = s.werr /\ drawn' = s.drawn

\* the display outside a session
NoScr == [oldpos |-> 0, maxrows |-> 0, crow |-> 1, painted |-> {},
          werr |-> FALSE, drawn |-> NoDraw]

\* the write of a redraw that fails in this step: one write fails per
\* session at most
RedrawFails == IF mlmode /\ ~werr THEN 0..(7 + maxrows) ELSE {0}

\* the display after clirEditInsert on c: nothing is drawn when the buffer
\* is full, one byte is echoed on the fast path, the line is redrawn
\* otherwise
InsertDraw(s, c, bl, f) ==
    IF c.len < bl /\ ~(c.len = c.pos /\ ~mlmode /\ plen + c.len + 1 < cols)
    THEN refreshLine(s, c.len + 1, c.pos + 1, f)
    ELSE s

\* the display after the insertion loop of completeWord
RECURSIVE DrawRest(_, _, _, _, _, _, _)
DrawRest(s, c, bl, cand, valid_p, junk, f) ==
    IF CandAt(cand, valid_p, junk) # 0
    THEN DrawRest(InsertDraw(s, c, bl, f),
                  EditInsert(c, bl, CandAt(cand, valid_p, junk)),
                  bl, cand, valid_p + 1, junk, f)
    ELSE s

\* the bytes of the listing: a blank and two quotes around each candidate
RECURSIVE ListLen(_)
ListLen(l) == IF l = <<>> THEN 0 ELSE Len(Head(l)) + 3 + ListLen(Tail(l))

\* the display after the listing is printed: a line break, the candidates,
\* a line break; the line is to be drawn anew on the row below the listing,
\* and rows are counted from that row
Listed(s, l) ==
    IF mlmode
    THEN LET first == s.crow + 1
             last  == first + (ListLen(l) - 1) \div cols
         IN [s EXCEPT !.crow = 1,
                      !.painted = {r - last : r \in @ \cup (first..last)}]
    ELSE s

\* the display after tab: completeWord, and the redraw that follows a
\* listing
completeDraw(s, c, bl, wp, junk, f) ==
    LET r    == completeWord(c, bl, wp, junk)
        cc   == completion(c.buf)
        ones == {k \in 1..Len(cc) : r.valid[k] = 1}
    IN IF Cardinality(ones) = 1
       THEN LET cand == cc[CHOOSE k \in ones : TRUE]
            IN InsertDraw(DrawRest(s, c, bl, cand, c.pos, junk, f),
                          InsertRest(c, bl, cand, c.pos, junk), bl, f)
       ELSE IF r.ret = 1
       THEN Reframe(refreshLine(Listed(s, r.listed), c.len, c.pos, f))
       ELSE s

----------------------------------------------------------------------------
(* The loop of clirEdit: from bytes to commands *)

\* one turn of the loop on the unread bytes in, which start with ESC or
\* with a byte of the default branch: the command decoded, the byte c and
\* the bytes left unread.  u is what seq, seq2 and seq3 hold where read
\* stores nothing.
Decode(in, u) ==
    LET c    == in[1]
        r1   == read(Tail(in), 2, u)
        seq  == r1.buf
        r2   == read(r1.rest, 2, u)
        seq2 == r2.buf
        r3   == read(r2.rest, 1, u)
        seq3 == r3.buf
        key(cmd, rest) == [cmd |-> cmd, c |-> c, rest |-> rest]
    IN IF c # 27 THEN key("Insert", Tail(in))
       ELSE IF seq[0] = 91
       THEN IF seq[1] = 65 THEN key("HistoryPrev", r1.rest)
            ELSE IF seq[1] = 66 THEN key("HistoryNext", r1.rest)
            ELSE IF seq[1] = 67 THEN key("MoveRight", r1.rest)
            ELSE IF seq[1] = 68 THEN key("MoveLeft", r1.rest)
            ELSE IF seq[1] = 90 THEN key("None", r1.rest)
            ELSE IF seq[1] > 48 /\ seq[1] < 55
            THEN IF seq[1] = 51 /\ seq2[0] = 126
                 THEN key("DeleteForward", r2.rest)
                 ELSE IF seq[1] = 49 /\ seq2[0] = 59
                 THEN IF seq2[1] = 53 /\ seq3[0] = 67
                      THEN key("WordForward", r3.rest)
                      ELSE IF seq2[1] = 53 /\ seq3[0] = 68
                      THEN key("WordBackward", r3.rest)
                      ELSE key("None", r3.rest)
                 ELSE key("None", r2.rest)
            ELSE key("None", r1.rest)
       ELSE IF seq[0] = 79 /\ seq[1] = 72 THEN key("MoveHome", r1.rest)
       ELSE IF seq[0] = 79 /\ seq[1] = 70 THEN key("MoveEnd", r1.rest)
       ELSE key("None", r1.rest)

----------------------------------------------------------------------------
(* The program *)

cs == [buf |-> buf, len |-> len, pos |-> pos]

mode == [rawmode |-> rawmode, termios |-> termios,
         orig_termios |-> orig_termios, atexit_registered |-> atexit_registered]

SetMode(m) ==
    /\ rawmode' = m.rawmode /\ termios' = m.termios
    /\ orig_termios' = m.orig_termios
    /\ atexit_registered' = m.atexit_registered

\* what clir returns: NULL, or a copy of the line
NULL == [null |-> TRUE, text |-> <<>>]
Str(s) == [null |-> FALSE, text |-> s]

\* the history file: missing, or its bytes
Absent == [exists |-> FALSE, data |-> <<>>]

\* the outcomes of tcsetattr in disableRawMode that this run may meet
RestoreFails == IF env.ttyfail THEN BOOLEAN ELSE {FALSE}

\* the variables that a command inside the loop of clirEdit leaves alone
outerVars == <<modeVars, restore, env, stdin, returned, fileVars>>

\* op: the operation just performed, its argument, its return value and the
\* history length it found
Done(name, arg, ret) ==
    op' = [name |-> name, arg |-> arg, ret |-> ret, was |-> history_len]

\* no completion was requested by this step
NoRequest == valid' = <<>> /\ cbarg' = <<>> /\ listed' = <<>>

\* an editing command that stays in the loop of clirEdit; r: whether it
\* calls refreshLine
Edited(n, r) ==
    /\ buf' = n.buf /\ len' = n.len /\ pos' = n.pos
    /\ \E f \in RedrawFails :
          SetScr(IF r THEN refreshLine(scr, n.len, n.pos, f) ELSE scr)
    /\ NoRequest
    /\ Done("clirEdit", <<>>, 0)
    /\ UNCHANGED <<pc, sessVars, histVars, confVars, hist0, outerVars>>

\* return from clirEdit with the given value: the clirState is gone,
\* clirRaw restores the terminal and clir returns the line, or NULL for -1
Returned(name, ret) ==
    /\ pc' = "idle"
    /\ buf' = [i \in 0..buflen |-> 0]
    /\ len' = 0 /\ pos' = 0 /\ word_pos' = 0 /\ history_index' = 0
    /\ NoRequest
    /\ hist0' = <<>>
    /\ \E fail \in RestoreFails :
          LET r == disableRawMode(mode, fail)
          IN SetMode(r.m) /\ restore' = r.did
    /\ returned' = IF ret = -1 THEN NULL ELSE Str(strdup(buf))
    /\ SetScr(NoScr)
    /\ Done(name, <<>>, ret)
    /\ UNCHANGED <<buflen, plen, cols, confVars, env, stdin, fileVars>>

\* the surroundings of a process on a capable terminal whose mode calls
\* succeed
Interactive == [isatty |-> TRUE, TERM |-> "xterm", ttyfail |-> FALSE]

\* the state when main of example.c reaches its loop: the completion
\* callback is registered and the statics hold their initial values; bl is
\* the size of the buffer that clir hands to clirEdit, hmax the capacity of
\* the history, ml whether --multiline was given, e the surroundings, in the
\* bytes waiting on standard input and f the history file
InitState(bl, hmax, ml, e, in, f) ==
    /\ pc = "idle"
    /\ buflen = bl
    /\ buf = [i \in 0..bl |-> 0]
    /\ len = 0 /\ pos = 0 /\ word_pos = 0 /\ history_index = 0
    /\ plen \in PromptLens /\ cols \in Columns
    /\ mlmode = ml
    /\ completionCallback = "completion"
    /\ history = <<>> /\ history_len = 0
    /\ history_max_len = hmax
    /\ valid = <<>> /\ cbarg = <<>> /\ listed = <<>>
    /\ hist0 = <<>>
    /\ rawmode = 0 /\ termios = "cooked" /\ orig_termios = "zero"
    /\ atexit_registered = 0
    /\ restore = "none"
    /\ env = e
    /\ stdin = in
    /\ returned = NULL
    /\ file = f /\ saved = <<>>
    /\ oldpos = 0 /\ maxrows = 0 /\ crow = 1 /\ painted = {}
    /\ werr = FALSE /\ drawn = NoDraw
    /\ op = [name |-> "init", arg |-> <<>>, ret |-> 0, was |-> 0]

\* the same without --multiline, on a capable terminal
InitWith(bl, hmax) == InitState(bl, hmax, FALSE, Interactive, <<>>, Absent)

(* the driver, between two calls of clir *)

clirHistoryAdd(line) ==
    /\ pc = "idle"
    /\ LET r == HistoryAdd(history, history_len, history_max_len, line)
       IN /\ history' = r.h
          /\ history_len' = r.hl
          /\ Done("clirHistoryAdd", line, r.ret)
    /\ UNCHANGED <<pc, csVars, sessVars, confVars, history_max_len, reqVars, hist0,
                   outerVars, scrVars>>

clirHistorySetMaxLen(n) ==
    /\ pc = "idle"
    /\ LET r == HistorySetMaxLen(history, history_len, history_max_len, n)
       IN /\ history' = r.h
          /\ history_len' = r.hl
          /\ history_max_len' = r.max
          /\ Done("clirHistorySetMaxLen", <<n>>, r.ret)
    /\ UNCHANGED <<pc, csVars, sessVars, confVars, reqVars, hist0, outerVars, scrVars>>

clirHistorySave(fails) ==
    /\ pc = "idle"
    /\ IF fails
       THEN /\ UNCHANGED fileVars
            /\ Done("clirHistorySave", <<>>, -1)
       ELSE /\ file' = [exists |-> TRUE, data |-> HistorySave(history, history_len, 1)]
            /\ saved' = <<history>>
            /\ Done("clirHistorySave", <<>>, 0)
    /\ UNCHANGED <<pc, csVars, sessVars, confVars, histVars, reqVars, hist0,
                   modeVars, restore, env, stdin, returned, scrVars>>

clirHistoryLoad ==
    /\ pc = "idle"
    /\ IF ~file.exists
       THEN /\ UNCHANGED <<history, history_len>>
            /\ Done("clirHistoryLoad", <<>>, -1)
       ELSE LET r == HistoryLoad(history, history_len, history_max_len, file.data)
            IN /\ history' = r.h
               /\ history_len' = r.hl
               /\ Done("clirHistoryLoad", <<>>, 0)
    /\ UNCHANGED <<pc, csVars, sessVars, confVars, history_max_len, reqVars, hist0,
                   outerVars, scrVars>>

\* the process ends: clirAtExit runs if enableRawMode registered it
ProcessExit ==
    /\ pc = "idle"
    /\ pc' = "exit"
    /\ IF atexit_registered = 1
       THEN \E fail \in RestoreFails :
              LET r == disableRawMode(mode, fail)
              IN SetMode(r.m) /\ restore' = r.did
       ELSE UNCHANGED <<modeVars, restore>>
    /\ Done("clirAtExit", <<>>, 0)
    /\ UNCHANGED <<csVars, sessVars, confVars, histVars, reqVars, hist0,
                   env, stdin, returned, fileVars, scrVars>>

\* the driver is run again: the statics start from their initialisers and
\* the driver sets the capacity it set before; the terminal and the history
\* file are as the process before left them
main ==
    /\ pc = "exit"
    /\ pc' = "idle"
    /\ history' = <<>> /\ history_len' = 0
    /\ rawmode' = 0 /\ orig_termios' = "zero" /\ atexit_registered' = 0
    /\ restore' = "none"
    /\ returned' = NULL
    /\ Done("main", <<>>, 0)
    /\ UNCHANGED <<csVars, sessVars, confVars, history_max_len, reqVars, hist0,
                   termios, env, stdin, fileVars, scrVars>>

(* clir when the terminal is on the incapable list *)
clirUnsupported ==
    /\ pc = "idle"
    /\ isUnsupportedTerm(env.TERM)
    /\ LET r == fgets(stdin, LINENOISE_MAX_LINE)
       IN /\ stdin' = r.rest
          /\ returned' = IF r.null THEN NULL ELSE Str(StripCRLF(r.got))
          /\ Done("clirUnsupported", r.got, 0)
    /\ UNCHANGED <<pc, csVars, sessVars, confVars, histVars, reqVars, hist0,
                   modeVars, restore, env, fileVars, scrVars>>

(* clir on a capable terminal when standard input is not a terminal: *)
(* the fgets branch of clirRaw                                        *)
clirNotATty ==
    /\ pc = "idle"
    /\ ~isUnsupportedTerm(env.TERM) /\ ~env.isatty
    /\ LET r == fgets(stdin, LINENOISE_MAX_LINE)
       IN /\ stdin' = r.rest
          /\ returned' = IF r.null THEN NULL ELSE Str(StripLF(r.got))
          /\ Done("clirNotATty", r.got, IF r.null THEN -1 ELSE Len(StripLF(r.got)))
    /\ UNCHANGED <<pc, csVars, sessVars, confVars, histVars, reqVars, hist0,
                   modeVars, restore, env, fileVars, scrVars>>

(* clir on a capable terminal whose mode cannot be read or set: clirRaw *)
(* returns -1 before clirEdit is called                                 *)
clirRawError(out) ==
    /\ pc = "idle"
    /\ ~isUnsupportedTerm(env.TERM) /\ env.isatty
    /\ env.ttyfail
    /\ SetMode(enableRawMode(mode, env.isatty, out).m)
    /\ restore' = "none"
    /\ returned' = NULL
    /\ Done("TerminalConfigError", <<>>, -1)
    /\ UNCHANGED <<pc, csVars, sessVars, confVars, histVars, reqVars, hist0,
                   env, stdin, fileVars, scrVars>>

(* clir on a capable terminal: clirRaw enters raw mode and calls          *)
(* clirEdit.                                                              *)
(* clirEdit up to its loop: the state is populated, the placeholder is   *)
(* added to the history and the prompt is written.  cs.buflen keeps the  *)
(* size it was given: the decrement that follows acts on the parameter.  *)
(* fill: what the rest of the caller's array and the byte after it hold. *)
(* watch: whether hist0 records the history the session was entered with. *)
clirEditStart(p, w, fill, wfail, watch) ==
    /\ pc = "idle"
    /\ ~isUnsupportedTerm(env.TERM) /\ env.isatty
    /\ plen' = p /\ cols' = w
    /\ LET r == HistoryAdd(history, history_len, history_max_len, <<>>)
       IN /\ history' = r.h
          /\ history_len' = r.hl
    /\ NoRequest
    /\ len' = 0 /\ pos' = 0 /\ word_pos' = 0 /\ history_index' = 0
    /\ returned' = NULL
    /\ LET raw == enableRawMode(mode, env.isatty, "ok").m
       IN IF wfail
          THEN /\ pc' = "idle"
               /\ buf' = [i \in 0..buflen |-> 0]
               /\ hist0' = <<>>
               /\ \E fail \in RestoreFails :
                     LET r == disableRawMode(raw, fail)
                     IN SetMode(r.m) /\ restore' = r.did
               /\ SetScr(NoScr)
               /\ Done("WriteError", <<>>, -1)
          ELSE /\ pc' = "edit"
               /\ buf' = [i \in 0..buflen |-> IF i = 0 THEN 0 ELSE fill]
               /\ hist0' = IF watch THEN history ELSE <<>>
               /\ SetMode(raw) /\ restore' = "none"
               /\ SetScr(IF mlmode /\ p > 0
                         THEN [NoScr EXCEPT !.crow = 1 + (p - 1) \div w,
                                            !.painted = 1..(1 + (p - 1) \div w)]
                         ELSE NoScr)
               /\ Done("clirEdit", <<>>, 0)
    /\ UNCHANGED <<buflen, confVars, history_max_len, env, stdin, fileVars>>

(* one turn of the loop of clirEdit, by the command decoded *)

\* read returns 0 or fails
ReadError ==
    /\ pc = "edit"
    /\ Returned("ReadError", len)
    /\ UNCHANGED histVars

\* tab
Complete(junk) ==
    /\ pc = "edit"
    /\ completionCallback # "NULL"
    /\ LET r == completeWord(cs, buflen, word_pos, junk)
       IN /\ buf' = r.cs.buf /\ len' = r.cs.len /\ pos' = r.cs.pos
          /\ valid' = r.valid
          /\ cbarg' = r.arg
          /\ listed' = r.listed
          /\ \E f \in RedrawFails :
                SetScr(completeDraw(scr, cs, buflen, word_pos, junk, f))
          /\ Done("clirEdit", <<>>, r.ret)
    /\ UNCHANGED <<pc, sessVars, histVars, confVars, hist0, outerVars>>

\* enter
Submit ==
    /\ pc = "edit"
    /\ history_len' = history_len - 1
    /\ history' = SubSeq(history, 1, history_len - 1)
    /\ Returned("Submit", len)
    /\ UNCHANGED history_max_len

\* ctrl-c
Interrupt ==
    /\ pc = "edit"
    /\ Returned("Interrupt", -1)
    /\ UNCHANGED histVars

\* backspace, ctrl-h
DeleteBackward ==
    /\ pc = "edit"
    /\ Edited(EditBackspace(cs), pos > 0 /\ len > 0)

\* ctrl-d on a line that is not empty, and ESC [ 3 ~
DeleteForward ==
    /\ pc = "edit"
    /\ Edited(EditDelete(cs), len > 0 /\ pos < len)

\* ctrl-d on an empty line
EndOfInput ==
    /\ pc = "edit"
    /\ ~(len > 0)
    /\ history_len' = history_len - 1
    /\ history' = SubSeq(history, 1, history_len - 1)
    /\ Returned("EndOfInput", -1)
    /\ UNCHANGED history_max_len

\* ctrl-t
SwapPrevChars ==
    /\ pc = "edit"
    /\ Edited(EditSwap(cs), pos > 0 /\ pos < len)

\* ctrl-b, ESC [ D
MoveLeft ==
    /\ pc = "edit"
    /\ Edited(EditMoveLeft(cs), pos > 0)

\* ctrl-f, ESC [ C
MoveRight ==
    /\ pc = "edit"
    /\ Edited(EditMoveRight(cs), pos # len)

HistoryMove(dir) ==
    /\ pc = "edit"
    /\ LET r == EditHistoryNext(cs, buflen, history, history_len, history_index, dir)
       IN /\ buf' = r.cs.buf /\ len' = r.cs.len /\ pos' = r.cs.pos
          /\ history' = r.h
          /\ history_index' = r.idx
          /\ \E f \in RedrawFails :
                SetScr(IF r.moved THEN refreshLine(scr, r.cs.len, r.cs.pos, f)
                       ELSE scr)
    /\ NoRequest
    /\ Done("clirEdit", <<>>, 0)
    /\ UNCHANGED <<pc, buflen, plen, cols, word_pos, history_len, history_max_len,
                   confVars, hist0, outerVars>>

\* ctrl-p, ESC [ A
HistoryPrev == HistoryMove(1)

\* ctrl-n, ESC [ B
HistoryNext == HistoryMove(0)

\* ESC [ 1 ; 5 C
WordForward ==
    /\ pc = "edit"
    /\ Edited(EditWordForward(cs), TRUE)

\* ESC [ 1 ; 5 D; under: the byte in memory just below the buffer
WordBackward(under) ==
    /\ pc = "edit"
    /\ Edited(EditWordBackward(cs, under), TRUE)

\* ctrl-a, ESC O H
MoveHome ==
    /\ pc = "edit"
    /\ \E ctrl \in BOOLEAN : Edited([cs EXCEPT !.pos = 0], ctrl \/ pos > 0)

\* ctrl-e, ESC O F
MoveEnd ==
    /\ pc = "edit"
    /\ \E ctrl \in BOOLEAN : Edited([cs EXCEPT !.pos = cs.len], ctrl \/ pos # len)

\* ctrl-u
ClearLine ==
    /\ pc = "edit"
    /\ Edited(EditClearLine(cs), TRUE)

\* ctrl-k
DeleteToEnd ==
    /\ pc = "edit"
    /\ Edited(EditDeleteToEnd(cs), TRUE)

\* ctrl-l
ClearScreen ==
    /\ pc = "edit"
    /\ \E f \in RedrawFails :
          SetScr(Reframe(AtScreenTop(
                    refreshLine(IF mlmode
                                THEN [scr EXCEPT !.crow = 1, !.painted = {}]
                                ELSE scr,
                                len, pos, f))))
    /\ NoRequest
    /\ Done("clirEdit", <<>>, 0)
    /\ UNCHANGED <<pc, csVars, sessVars, histVars, confVars, hist0, outerVars>>

\* ctrl-w
DeletePrevWord ==
    /\ pc = "edit"
    /\ Edited(EditDeletePrevWord(cs), TRUE)

\* the default branch; wfail: the write of the echoed byte fails
InsertChar(c, wfail) ==
    /\ pc = "edit"
    /\ LET n    == EditInsert(cs, buflen, c)
           fast == len < buflen /\ len = pos /\ ~mlmode /\ plen + n.len < cols
       IN /\ wfail => fast
          /\ IF wfail
             THEN /\ Returned("WriteError", -1)
                  /\ UNCHANGED histVars
             ELSE /\ buf' = n.buf /\ len' = n.len /\ pos' = n.pos
                  /\ word_pos' = IF c = 32 THEN n.pos ELSE word_pos
                  /\ \E f \in RedrawFails : SetScr(InsertDraw(scr, cs, buflen, f))
                  /\ NoRequest
                  /\ Done("clirEdit", <<>>, 0)
                  /\ UNCHANGED <<pc, buflen, plen, cols, history_index, histVars,
                                 confVars, hist0, outerVars>>

----------------------------------------------------------------------------
(* Specifications *)

\* what the command decoded does to the line, the store, the index and
\* word_pos, and whether it calls refreshLine
KeyEffect(d, under) ==
    LET keep(n, r) == [cs |-> n, h |-> history, idx |-> history_index,
                       wp |-> word_pos, r |-> r]
        page(dir)  == LET e == EditHistoryNext(cs, buflen, history, history_len,
                                               history_index, dir)
                      IN [cs |-> e.cs, h |-> e.h, idx |-> e.idx,
                          wp |-> word_pos, r |-> e.moved]
        n          == EditInsert(cs, buflen, d.c)
    IN CASE d.cmd = "Insert" ->
              [cs |-> n, h |-> history, idx |-> history_index,
               wp |-> IF d.c = 32 THEN n.pos ELSE word_pos, r |-> FALSE]
         [] d.cmd = "HistoryPrev"   -> page(1)
         [] d.cmd = "HistoryNext"   -> page(0)
         [] d.cmd = "MoveRight"     -> keep(EditMoveRight(cs), pos # len)
         [] d.cmd = "MoveLeft"      -> keep(EditMoveLeft(cs), pos > 0)
         [] d.cmd = "DeleteForward" -> keep(EditDelete(cs), len > 0 /\ pos < len)
         [] d.cmd = "WordForward"   -> keep(EditWordForward(cs), TRUE)
         [] d.cmd = "WordBackward"  -> keep(EditWordBackward(cs, under), TRUE)
         [] d.cmd = "MoveHome"      -> keep([cs EXCEPT !.pos = 0], pos > 0)
         [] d.cmd = "MoveEnd"       -> keep([cs EXCEPT !.pos = cs.len], pos # len)
         [] OTHER                   -> keep(cs, FALSE)

\* one turn of the loop of clirEdit on the bytes of standard input, for a
\* first byte that is ESC or goes to the default branch; the writes of the
\* echo succeed
clirEditKey(u, under) ==
    /\ pc = "edit"
    /\ stdin # <<>>
    /\ stdin[1] = 27 \/ (stdin[1] >= 32 /\ stdin[1] # 127)
    /\ LET d == Decode(stdin, u)
           e == KeyEffect(d, under)
       IN /\ buf' = e.cs.buf /\ len' = e.cs.len /\ pos' = e.cs.pos
          /\ history' = e.h
          /\ history_index' = e.idx
          /\ word_pos' = e.wp
          /\ \E f \in RedrawFails :
                SetScr(IF d.cmd = "Insert" THEN InsertDraw(scr, cs, buflen, f)
                       ELSE IF e.r THEN refreshLine(scr, e.cs.len, e.cs.pos, f)
                       ELSE scr)
          /\ stdin' = d.rest
          /\ Done(d.cmd, <<>>, 0)
    /\ NoRequest
    /\ UNCHANGED <<pc, buflen, plen, cols, history_len, history_max_len,
                   confVars, hist0, modeVars, restore, env, returned, fileVars>>

Start(watch) ==
    \E p \in PromptLens, w \in Columns, fill \in Fill, wfail \in BOOLEAN :
        clirEditStart(p, w, fill, wfail, watch)

\* Spec: every command of the editor.  Either the store has room for the
\* placeholder alone, or the buffer is shorter and the store also holds a
\* line that history navigation loads and overwrites.
Next ==
    \/ clirHistoryAdd(<<104>>)
    \/ Start(FALSE)
    \/ ReadError
    \/ Submit
    \/ Interrupt
    \/ EndOfInput
    \/ DeleteBackward
    \/ DeleteForward
    \/ SwapPrevChars
    \/ MoveLeft
    \/ MoveRight
    \/ HistoryPrev
    \/ HistoryNext
    \/ WordForward
    \/ \E under \in Fill : WordBackward(under)
    \/ MoveHome
    \/ MoveEnd
    \/ ClearLine
    \/ DeleteToEnd
    \/ ClearScreen
    \/ DeletePrevWord
    \/ \E junk \in Junk : Complete(junk)
    \/ \E c \in EditText, wfail \in BOOLEAN : InsertChar(c, wfail)

Init == InitWith(EditBufLen, 1) \/ InitWith(NavBufLen, MaxHistLen)

Spec == Init /\ [][Next]_vars

\* SpecHist: the history store under the driver's calls and under sessions
NextHist ==
    \/ \E line \in Lines : clirHistoryAdd(line)
    \/ \E n \in 0..MaxSetLen : clirHistorySetMaxLen(n)
    \/ Start(TRUE)
    \/ ReadError
    \/ Submit
    \/ Interrupt
    \/ EndOfInput
    \/ DeleteBackward
    \/ HistoryPrev
    \/ HistoryNext
    \/ \E c \in HistText, wfail \in BOOLEAN : InsertChar(c, wfail)

InitHist == InitWith(HistBufLen, MaxHistLen)

SpecHist == InitHist /\ [][NextHist]_vars

\* SpecComp: words typed and completed
NextComp ==
    \/ Start(FALSE)
    \/ Submit
    \/ DeleteBackward
    \/ \E junk \in Junk : Complete(junk)
    \/ \E c \in CompText, wfail \in BOOLEAN : InsertChar(c, wfail)

InitComp == InitWith(CompBufLen, 1)

SpecComp == InitComp /\ [][NextComp]_vars

\* SpecMode: sessions on a terminal whose mode calls may fail
NextMode ==
    \/ Start(FALSE)
    \/ \E out \in {"tcgetattr", "tcsetattr"} : clirRawError(out)
    \/ ReadError
    \/ Submit
    \/ Interrupt
    \/ EndOfInput
    \/ \E c \in HistText, wfail \in BOOLEAN : InsertChar(c, wfail)
    \/ ProcessExit

InitMode ==
    InitState(HistBufLen, 1, FALSE, [Interactive EXCEPT !.ttyfail = TRUE],
              <<>>, Absent)

SpecMode == InitMode /\ [][NextMode]_vars

\* SpecFallback: clir read line by line where the editor cannot run
NextFallback ==
    \/ clirUnsupported
    \/ clirNotATty

InitFallback ==
    \E e \in {[Interactive EXCEPT !.TERM = "dumb"],
               [Interactive EXCEPT !.isatty = FALSE]}, in \in Inputs :
        InitState(EditBufLen, 1, FALSE, e, in, Absent)

SpecFallback == InitFallback /\ [][NextFallback]_vars

\* SpecFile: the store built by adds, saved, and loaded by a later run
NextFile ==
    \/ \E l \in FileLines : clirHistoryAdd(l)
    \/ \E fails \in BOOLEAN : clirHistorySave(fails)
    \/ clirHistoryLoad
    \/ ProcessExit
    \/ main

InitFile ==
    \E f \in {Absent, [exists |-> TRUE, data |-> <<111, 13, 10>>]} :
        InitState(HistBufLen, MaxHistLen, FALSE, Interactive, <<>>, f)

SpecFile == InitFile /\ [][NextFile]_vars

\* multi-row mode, with prompts shorter and longer than the terminal is wide
StartML ==
    \E p \in 1..MaxMLPromptLen, fill \in Fill, wfail \in BOOLEAN :
        clirEditStart(p, MLColumns, fill, wfail, FALSE)

NextML ==
    \/ StartML
    \/ \E c \in HistText, wfail \in BOOLEAN : InsertChar(c, wfail)
    \/ MoveLeft
    \/ MoveHome
    \/ DeleteBackward
    \/ DeleteToEnd
    \/ ClearLine
    \/ ClearScreen
    \/ \E junk \in Junk : Complete(junk)
    \/ Submit

InitML == InitState(MLBufLen, 1, TRUE, Interactive, <<>>, Absent)

SpecML == InitML /\ [][NextML]_vars

\* the keys of a session, byte by byte
NextKeys ==
    \/ clirHistoryAdd(<<104>>)
    \/ Start(FALSE)
    \/ \E u \in Uninit, under \in Fill : clirEditKey(u, under)
    \/ ReadError

InitKeys ==
    \E in \in KeyStreams(MaxKeys) :
        InitState(KeyBufLen, MaxHistLen, FALSE, Interactive, in, Absent)

SpecKeys == InitKeys /\ [][NextKeys]_vars

\* a session under every prompt length and terminal width
StartWide ==
    \E p \in 0..MaxPromptLen, w \in 1..MaxColumns, fill \in Fill, wfail \in BOOLEAN :
        clirEditStart(p, w, fill, wfail, FALSE)

\* single-row redraws
NextWindow ==
    \/ StartWide
    \/ \E c \in HistText, wfail \in BOOLEAN : InsertChar(c, wfail)
    \/ MoveLeft
    \/ MoveRight
    \/ MoveHome
    \/ DeleteBackward
    \/ Submit

InitWindow == InitWith(WinBufLen, 1)

SpecWindow == InitWindow /\ [][NextWindow]_vars

----------------------------------------------------------------------------
(* Properties *)

\* the edited line: buf[0..len-1]
Line(b, l) == [i \in 1..l |-> b[i - 1]]

IsPrefix(a, b) == Len(a) <= Len(b) /\ \A i \in 1..Len(a) : a[i] = b[i]

\* C1: after every command of a session the cursor lies within the line:
\* 0 <= pos <= len.
C1_CursorWithinLine == 0 <= pos /\ pos <= len

\* a line loaded from the history and extended to the end of the buffer
C1_Witness ==
    pc = "edit" /\ history_index = 1 /\ len = buflen /\ pos = len

\* C2: len never exceeds the capacity, the size of the caller's buffer minus
\* one, so the terminator at index len stays inside the buffer.
C2_LenWithinCapacity == len <= buflen - 1

\* C3: in a session, whatever bytes are typed, no terminator lies in
\* buf[0..len-1] and buf[len] is the terminator.
C3_TerminatorOnlyAtLen ==
    pc = "edit" => (\A i \in 0..(len - 1) : buf[i] # 0) /\ buf[len] = 0

\* C4: the size of the store stays within [0, capacity], and an add to a
\* full store of a line that differs from the newest entry drops exactly the
\* oldest entry, keeps the others in order and appends the line.
C4_Step ==
    /\ 0 <= history_len' /\ history_len' <= history_max_len'
    /\ Len(history') = history_len'
    /\ ( /\ op'.name = "clirHistoryAdd"
         /\ pc = "idle"
         /\ history_len > 0
         /\ history_len = history_max_len
         /\ op'.arg # history[history_len] )
       => /\ history_len' = history_len
          /\ \A i \in 1..(history_len - 1) : history'[i] = history[i + 1]
          /\ history'[history_len] = op'.arg
          /\ op'.ret = 1

C4_BoundedStore == [][C4_Step]_vars

\* an add that found the store full and was accepted
C4_Witness ==
    /\ op.name = "clirHistoryAdd" /\ op.ret = 1
    /\ op.was = history_max_len /\ history_max_len > 1

\* C5: an add of a line equal to the newest entry changes nothing in any
\* store, a full one included, and returns 0.
C5_Step ==
    ( /\ op'.name = "clirHistoryAdd"
      /\ pc = "idle"
      /\ history_len > 0
      /\ op'.arg = history[history_len] )
    => /\ history' = history
       /\ history_len' = history_len
       /\ op'.ret = 0

C5_DuplicateIsNoOp == [][C5_Step]_vars

\* C6: whenever a session leaves the loop of clirEdit (enter, ctrl-c, ctrl-d
\* on an empty line, a failed read, a failed write) the newest slot, the
\* placeholder, is removed from the store.
C6_Step ==
    (pc = "edit" /\ pc' = "idle")
    => /\ history_len' = history_len - 1
       /\ history' = SubSeq(history, 1, history_len - 1)

C6_PlaceholderRemoved == [][C6_Step]_vars

\* C7: a session ended by enter leaves in the store exactly the entries, in
\* order, that it held when the session started.
C7_Step ==
    (pc = "edit" /\ op'.name = "Submit") => history' = hist0

C7_SubmitRestoresStore == [][C7_Step]_vars

\* C8: clirHistorySetMaxLen(n) with n < 1 is rejected and changes nothing;
\* with n >= 1 the capacity becomes n and the store holds the newest
\* min(size, n) entries in their order.
C8_Step ==
    (op'.name = "clirHistorySetMaxLen" /\ pc = "idle")
    => LET n == op'.arg[1]
           k == IF history_len < n THEN history_len ELSE n
       IN IF n < 1
          THEN /\ op'.ret = 0
               /\ UNCHANGED <<history, history_len, history_max_len>>
          ELSE /\ op'.ret = 1
               /\ history_max_len' = n
               /\ history_len' = k
               /\ Len(history') = k
               /\ \A i \in 1..k : history'[i] = history[history_len - k + i]

C8_SetMaxLen == [][C8_Step]_vars

\* a capacity set below the size of the store
C8_Witness ==
    /\ op.name = "clirHistorySetMaxLen" /\ op.ret = 1
    /\ op.was > history_max_len /\ history_len = history_max_len
    /\ history_len > 1

\* the word being typed, from word_pos to the cursor
Typed == [i \in 1..(pos - word_pos) |-> buf[word_pos + i - 1]]

\* the producer's candidates that the typed word is a prefix of
Matching == {k \in 1..Len(completion(buf)) : IsPrefix(Typed, completion(buf)[k])}

\* C9: a completion request with exactly one valid candidate for the word
\* being typed, at any offset, inserts at the cursor the candidate's
\* characters not yet typed and then one space.
C9_Step ==
    ( /\ valid' # <<>>
      /\ word_pos <= pos
      /\ Cardinality(Matching) = 1 )
    => LET cand == completion(buf)[CHOOSE k \in Matching : TRUE]
           rest == SubSeq(cand, Len(Typed) + 1, Len(cand))
       IN Line(buf', len') =
            SubSeq(Line(buf, len), 1, pos) \o rest \o <<32>>
               \o SubSeq(Line(buf, len), pos + 1, len)

C9_SingleCandidateInserted == [][C9_Step]_vars

\* C10: a candidate is counted valid only if every character of the typed
\* word equals the candidate's character at the same index; a candidate
\* shorter than the typed word is not valid.
C10_Step ==
    (valid' # <<>> /\ word_pos <= pos)
    => \A k \in 1..Len(valid') :
          valid'[k] = 1 => IsPrefix(Typed, completion(buf)[k])

C10_ValidMeansPrefix == [][C10_Step]_vars

\* whether the typed word is a prefix of candidate c
TypedIsPrefixOf(c) == IsPrefix(Typed, c)

\* C11: a completion request for which more than one candidate is valid
\* prints exactly the valid candidates, in the producer's order, and leaves
\* the buffer, its length and the cursor as they were.
C11_Step ==
    ( /\ valid' # <<>>
      /\ word_pos <= pos
      /\ Cardinality(Matching) > 1 )
    => /\ listed' = SelectSeq(completion(buf), TypedIsPrefixOf)
       /\ buf' = buf /\ len' = len /\ pos' = pos

C12_Step ==
    (cbarg' # <<>> /\ word_pos <= pos) => cbarg'[1] = Typed

C12_CallbackGetsWord == [][C12_Step]_vars

Max(S) == CHOOSE x \in S : \A y \in S : x >= y

\* s without the CR and LF characters at its end
Trimmed(s) ==
    SubSeq(s, 1, Max({0} \cup {i \in 1..Len(s) : s[i] \notin {10, 13}}))

\* C13: on both fallback paths (standard input is not a terminal; TERM is on
\* the incapable list) the line returned is the input read, up to its line
\* terminator, without any CR or LF at its end.
C13_Step ==
    (op'.name \in {"clirUnsupported", "clirNotATty"} /\ ~returned'.null)
    => returned'.text = Trimmed(op'.arg)

C13_FallbackStripsCRLF == [][C13_Step]_vars

\* C14: clirHistoryLoad of a path with no file reports success (returns 0)
\* and leaves the store as it was.
C14_Step ==
    (op'.name = "clirHistoryLoad" /\ pc = "idle" /\ ~file.exists)
    => /\ op'.ret = 0
       /\ history' = history /\ history_len' = history_len

C14_MissingFileIsSuccess == [][C14_Step]_vars

\* C15: a store built by adds of lines without CR or LF, saved to a file and
\* loaded from it into an empty store of the same capacity, comes back with
\* the same entries in the same order.
C15_Step ==
    ( /\ op'.name = "clirHistoryLoad" /\ pc = "idle"
      /\ history_len = 0
      /\ file.exists /\ saved # <<>> )
    => /\ op'.ret = 0
       /\ history' = saved[1]
       /\ history_len' = Len(saved[1])

C15_SaveLoadRoundTrip == [][C15_Step]_vars

\* the ways a session that entered raw mode returns to the caller of clir
Exits == {"Submit", "Interrupt", "EndOfInput", "ReadError", "WriteError"}

\* C18: whenever a session that entered raw mode returns to the caller, by
\* enter, ctrl-c, ctrl-d, a failed read or a failed write, disableRawMode
\* has been called, and if its tcsetattr succeeded the terminal is not in
\* raw mode when control returns.
C18_Step ==
    op'.name \in Exits
    => /\ restore' # "none"
       /\ restore' = "ok" => termios' # "raw"

C18_RestoredOnEveryExit == [][C18_Step]_vars

\* C19: whatever calls of enableRawMode and disableRawMode were made, failed
\* ones included, the settings remembered are those the terminal had before
\* the first enableRawMode, a disableRawMode whose tcsetattr succeeds leaves
\* the terminal in those settings, and a disableRawMode called while raw
\* mode is not active writes no settings.
C19_Step ==
    /\ orig_termios' \in {"zero", "cooked"}
    /\ (op'.name \in Exits \cup {"clirAtExit"} /\ restore' = "ok")
       => termios' = "cooked"
    /\ (op'.name = "clirAtExit" /\ atexit_registered = 1 /\ rawmode = 0)
       => restore' = "skipped" /\ termios' = termios

C19_OriginalSettingsKept == [][C19_Step]_vars

\* C20: when the read of the next byte fails or returns no byte, the session
\* ends and clir returns no line: the text typed so far is not returned as
\* if it had been submitted.
C20_Step == op'.name = "ReadError" => returned'.null

C20_ReadErrorReturnsNoLine == [][C20_Step]_vars

----------------------------------------------------------------------------
(* The single-row redraw *)

\* the window of the last redraw keeps the cursor and the text in the row:
\* its offset is inside the text before the cursor, the cursor is left of
\* the right edge, and prompt plus visible text do not exceed the width
InRow ==
    /\ drawn.off \in 0..pos
    /\ drawn.pos >= 0 /\ plen + drawn.pos < cols
    /\ drawn.len >= 0 /\ plen + drawn.len <= cols

\* C16 as stated: for every prompt length, width and cursor position with
\* prompt + cursor >= width, the window computed by the single-row redraw
\* has its offset in 0..cursor, shows the cursor left of the right edge and
\* fits the row.
C16_AnyPrompt ==
    (drawn.mode = "single" /\ plen + pos >= cols) => InRow

----------------------------------------------------------------------------
(* The multi-row redraw *)

\* ceil((P + length) / C)
Rows(l) == (plen + l + cols - 1) \div cols

\* the high-water mark does not fall inside a session, and covers the line
\* after a redraw
HighWater ==
    /\ (pc = "edit" /\ pc' = "edit") => maxrows' >= maxrows
    /\ (pc' = "edit" /\ drawn'.mode = "multi") => maxrows' >= Rows(len')

\* after a redraw no row below the image of the line shows text
NoStaleRow ==
    (pc' = "edit" /\ drawn'.mode = "multi") =>
        \A r \in painted' : r <= Rows(len')

\* C17 as stated: in multi-row mode maxrows never decreases within a
\* session and after each redraw is at least ceil((P + length)/C); after
\* each redraw no painted row beyond the new row count keeps stale text.
C17_Step == HighWater /\ NoStaleRow
C17_NoStaleRows == [][C17_Step]_vars

----------------------------------------------------------------------------
(* Failed writes *)

\* a write to the terminal failed in this step: the prompt or the echoed
\* byte, or a write of a redraw
WriteFailed ==
    \/ op'.name = "WriteError"
    \/ drawn'.mode = "multi" /\ drawn'.failed

\* C21: a failed write to the terminal while drawing (the prompt, the
\* echoed byte of an insert, a write of a redraw) does not end the session,
\* and after a failed echo the line holds the inserted byte.
C21_Step ==
    WriteFailed =>
        /\ pc' = "edit"
        /\ (op'.name = "WriteError" /\ pc = "edit") =>
               (len' = len + 1 /\ pos' = pos + 1)
C21_WriteFailureSwallowed == [][C21_Step]_vars

----------------------------------------------------------------------------
(* Insert and backspace *)

\* C22: in every state of a session whose line is shorter than the
\* capacity, for every byte c but the terminator, inserting c and then
\* deleting backward gives back the text, the length and the cursor.
C22_InsertBackspaceInverse ==
    (pc = "edit" /\ len < buflen) =>
        \A c \in EditText \ {0} :
            LET b == EditBackspace(EditInsert(cs, buflen, c))
            IN /\ strdup(b.buf) = strdup(buf)
               /\ b.len = len
               /\ b.pos = pos

\* a line with text on both sides of the cursor and room for one more byte
C22_Witness ==
    /\ pc = "edit" /\ 0 < pos /\ pos < len /\ len < buflen
    /\ strlen(buf) = len
    /\ EditInsert(cs, buflen, 104).len = len + 1

----------------------------------------------------------------------------
(* History navigation *)

\* clirEditHistoryNext on the state as it is
Paged(dir) ==
    EditHistoryNext(cs, buflen, history, history_len, history_index, dir)

\* the line is left as it is
SameLine(c) == strdup(c.buf) = strdup(buf) /\ c.len = len /\ c.pos = pos

\* C23: during a session the navigation index is in 0..size-1, so the slot
\* that navigation reads or overwrites exists; HistoryPrev at the oldest
\* entry and HistoryNext at the newest leave index, text, length and cursor
\* unchanged.
C23_IndexInStore ==
    pc = "edit" =>
        /\ history_index \in 0..(history_len - 1)
        /\ (history_len - history_index) \in 1..Len(history)
        /\ history_index = history_len - 1 =>
               (Paged(1).idx = history_index /\ SameLine(Paged(1).cs))
        /\ history_index = 0 =>
               (Paged(0).idx = history_index /\ SameLine(Paged(0).cs))

\* the session has paged back to the oldest of several entries
C23_Witness ==
    /\ pc = "edit" /\ history_len >= 2 /\ history_index = history_len - 1
    /\ len > 0

\* clirEditHistoryNext k times in direction dir, from the line, the store
\* and the index of st
RECURSIVE PageBy(_, _, _)
PageBy(st, k, dir) ==
    IF k = 0 THEN st
    ELSE LET r == EditHistoryNext(st.cs, buflen, st.h, history_len, st.idx, dir)
         IN PageBy([cs |-> r.cs, h |-> r.h, idx |-> r.idx], k - 1, dir)

\* C24: in a session whose store has at least two entries, from any line
\* at an index that is not the oldest, k times HistoryPrev and then k times
\* HistoryNext, none of them at a boundary, come back to the index with the
\* text of the line as it was.
C24_PagingKeepsEdits ==
    (pc = "edit" /\ history_len >= 2) =>
        \A k \in 1..(history_len - 1 - history_index) :
            LET here == [cs |-> cs, h |-> history, idx |-> history_index]
                back == PageBy(PageBy(here, k, 1), k, 0)
            IN /\ back.idx = history_index
               /\ strdup(back.cs.buf) = strdup(buf)

----------------------------------------------------------------------------
(* The row a multi-row redraw starts from *)

\* "cursor relative row" of refreshMultiLine
rpos == (plen + oldpos + cols) \div cols

\* C25: in multi-row mode with a prompt shorter than the width, at the
\* start of every redraw 1 <= rpos <= max(maxrows, 1), and the moves before
\* the prompt is rewritten put the cursor on the first row of the image.
C25_Step ==
    (pc = "edit" /\ drawn'.mode = "multi" /\ plen < cols) =>
        /\ 1 <= rpos
        /\ rpos <= (IF maxrows > 1 THEN maxrows ELSE 1)
        /\ drawn'.land = 1
C25_RedrawStartsOnFirstRow == [][C25_Step]_vars

----------------------------------------------------------------------------
(* Escape sequences *)

\* C26: each turn of the loop that starts on a key of the input stream
\* consumes the bytes of that key and no more, and performs the command of
\* that key; after ESC [ 3 ~ the byte that follows is still unread.
C26_Step ==
    (pc = "edit" /\ pc' = "edit" /\ stdin' # stdin) =>
        \E k \in Keys : stdin = k.bytes \o stdin' /\ op'.name = k.cmd
C26_KeyConsumesItsBytes == [][C26_Step]_vars

----------------------------------------------------------------------------
(* Word jumps *)

\* C27: from every state of a session the ctrl-right and ctrl-left jumps
\* leave text and length unchanged, leave the cursor in 0..len, and read
\* the buffer at indices in 0..len only.
C27_WordJumpsInBounds ==
    pc = "edit" =>
        /\ LET n == EditWordForward(cs)
           IN /\ n.buf = buf /\ n.len = len /\ n.pos \in 0..len
              /\ WordForwardReads(cs) \subseteq 0..len
        /\ \A under \in Fill :
              LET n == EditWordBackward(cs, under)
              IN /\ n.buf = buf /\ n.len = len /\ n.pos \in 0..len
                 /\ WordBackwardReads(cs, under) \subseteq 0..len

====
